---- MODULE Spec2Model ----
(***************************************************************************)
(* A model of nova.py: the NovaProWireless controller (feature flags, the *)
(* two virtual sinks, the chatmix() read loop, close()) and the message   *)
(* encoder _create_msgdata.                                                *)
(*                                                                         *)
(* The USB device and the audio server are the environment: every call    *)
(* the program makes to them is recorded in `ops` (the calls of the last  *)
(* step), and the audio server's own state is `modules` (the loaded       *)
(* combine-sink modules) and `sinkList` (the physical sinks).             *)
(***************************************************************************)
EXTENDS Integers, Sequences, FiniteSets, TLC

(* ------------------------------------------------------------------ *)
(* Program constants (class attributes of NovaProWireless)            *)
(* ------------------------------------------------------------------ *)
\* None as the value of a module id (PW_LOOPBACK_*_MODULE_ID)
None == -1

\* None as the value of PW_ORIGINAL_SINK (a sink name otherwise)
Unset == "None"

ENDPOINT_TX == 4

ENDPOINT_RX == 132

MSGLEN == 64

TX == 6

RX == 7

OPT_SONAR_ICON == 141

OPT_CHATMIX_ENABLE == 73

OPT_VOLUME == 37

OPT_CHATMIX == 69

OPT_EQ == 49

OPT_EQ_PRESET == 46

\* ljust(MSGLEN, b"0"): the fill byte is the character "0", code point 48.
PAD == 48

PW_GAME_SINK == "NovaGame"

PW_CHAT_SINK == "NovaChat"

(* ------------------------------------------------------------------ *)
(* Bounds of the model                                                *)
(* ------------------------------------------------------------------ *)
\* chatmix() is called at most MaxRuns times
MaxRuns == 2

\* dev.read is called at most MaxReads times in one run of chatmix()
MaxReads == 2

\* _create_msgdata is applied to tuples of at most MaxDataLen ints
MaxDataLen == 66

(* ------------------------------------------------------------------ *)
(* Inputs                                                             *)
(* ------------------------------------------------------------------ *)
\* Names of physical sinks; HEADSET_NAME in sink.name holds for the first two.
HeadsetSinks == {"Nova.analog", "Nova.iec958"}

HeadsetNameIn(name) == name \in HeadsetSinks

\* The sink lists pulse.sink_list() may return.
PhysicalSinkLists ==
    { <<"hdmi">>, <<"hdmi", "Nova.analog">>, <<"Nova.analog", "Nova.iec958">>,
      <<"Nova.iec958", "hdmi", "Nova.analog">> }

\* (game, chat) data bytes of the ChatMix reports the device sends.
Reports == { <<100, 50>>, <<0, 0>>, <<80, 30>>, <<255, 7>> }

\* Opcodes of the other messages the device sends (0: an unknown opcode).
OtherOpcodes == { OPT_VOLUME, OPT_EQ, OPT_EQ_PRESET, 0 }

\* Arguments of set_volume and set_eq_preset.
Attenuations == { 56 }

Presets == { 4 }

\* Tuples handed to _create_msgdata: direction, opcode, then a payload of one
\* repeated int; 256 is not a byte.
DataInputs ==
    { [i \in 1..n |-> IF i = 1 THEN TX ELSE IF i = 2 THEN op ELSE b] :
        n \in 0..MaxDataLen,
        op \in {OPT_SONAR_ICON, OPT_CHATMIX_ENABLE, OPT_VOLUME, OPT_EQ_PRESET},
        b \in {0, 1, 255, 256} }

VARIABLES
    pc,                          \* where the main thread is
    CLOSE,
    CHATMIX_CONTROLS_ENABLED,
    SONAR_ICON_ENABLED,
    PW_ORIGINAL_SINK,
    PW_LOOPBACK_GAME_MODULE_ID,
    PW_LOOPBACK_CHAT_MODULE_ID,
    msg,                         \* chatmix(): the message read last
    modules,                     \* audio server: the loaded combine-sink modules
    nextIndex,                   \* audio server: the index of the next module
    sinkList,                    \* audio server: the physical sinks
    ops,                         \* the device and audio-server calls of the last step
    act,                         \* the last step
    prevAct,                     \* the step before it
    runs,                        \* calls of chatmix() so far
    reads,                       \* calls of dev.read in this run
    data,                        \* _create_msgdata: its argument
    msgdata,                     \* _create_msgdata: its result
    local,                       \* main thread: the locals of the call in progress
    unloads                      \* audio server: the module_unload calls received

vars == << pc, CLOSE, CHATMIX_CONTROLS_ENABLED, SONAR_ICON_ENABLED,
           PW_ORIGINAL_SINK, PW_LOOPBACK_GAME_MODULE_ID,
           PW_LOOPBACK_CHAT_MODULE_ID, msg, modules, nextIndex, sinkList,
           ops, act, prevAct, runs, reads, data, msgdata, local, unloads >>

flags == << CHATMIX_CONTROLS_ENABLED, SONAR_ICON_ENABLED >>

handles == << PW_LOOPBACK_GAME_MODULE_ID, PW_LOOPBACK_CHAT_MODULE_ID >>

\* What only the specification with close() run between the main thread's
\* statements keeps: there the calls are taken statement by statement.
frame == << local, unloads >>

codec == << data, msgdata >>

Op(name, id, arg) == [op |-> name, id |-> id, arg |-> arg]

(* ------------------------------------------------------------------ *)
(* _create_msgdata                                                    *)
(* ------------------------------------------------------------------ *)
IsBytes(d) == \A i \in 1..Len(d) : d[i] \in 0..255

\* bytes.ljust(width, fill): the bytes, then fill up to width; never shortened.
Ljust(b, width, fill) ==
    IF Len(b) >= width THEN b
    ELSE b \o [i \in 1..(width - Len(b)) |-> fill]

\* bytes(data) raises ValueError for an int outside range(256).
CreateMsgdata(d) ==
    IF IsBytes(d)
    THEN [raised |-> "no", bytes |-> Ljust(d, MSGLEN, PAD)]
    ELSE [raised |-> "ValueError", bytes |-> <<>>]

\* _create_msgdata has not been called
NotCalled == [raised |-> "not called", bytes |-> <<>>]

BoolInt(state) == IF state THEN 1 ELSE 0

\* dev.write(ENDPOINT_TX, _create_msgdata((TX, opcode, value)))
Write(opcode, value) ==
    Op("write", ENDPOINT_TX, CreateMsgdata(<<TX, opcode, value>>).bytes)

(* ------------------------------------------------------------------ *)
(* Sinks                                                              *)
(* ------------------------------------------------------------------ *)
Indexes(mods) == { m.index : m \in mods }

\* _detect_original_sink: a manually set sink is kept; otherwise every sink
\* whose name holds HEADSET_NAME is assigned in turn (the loop has no break).
RECURSIVE DetectFrom(_, _, _)
DetectFrom(orig, sinks, i) ==
    IF i > Len(sinks) THEN orig
    ELSE DetectFrom(IF HeadsetNameIn(sinks[i]) THEN sinks[i] ELSE orig, sinks, i + 1)

\* Mutant: the loop stops at the first sink whose name holds HEADSET_NAME
DetectOriginalSinkFirst(orig, sinks) ==
    IF orig # Unset THEN orig
    ELSE IF \E i \in 1..Len(sinks) : HeadsetNameIn(sinks[i])
         THEN sinks[CHOOSE i \in 1..Len(sinks) :
                      /\ HeadsetNameIn(sinks[i])
                      /\ \A j \in 1..(i - 1) : ~HeadsetNameIn(sinks[j])]
         ELSE orig

DetectOriginalSink(orig, sinks) ==
    IF orig # Unset THEN orig ELSE DetectFrom(orig, sinks, 1)

\* _remove_sink: unload the module if the audio server lists it.
RemoveSink(mods, module_id) ==
    IF module_id \in Indexes(mods)
    THEN [modules |-> { m \in mods : m.index # module_id },
          ops |-> << Op("_remove_sink", module_id, None),
                     Op("module_unload", module_id, None) >>]
    ELSE [modules |-> mods,
          ops |-> << Op("_remove_sink", module_id, None) >>]

\* Mutant: the chat sink is forgotten
RemoveVirtualSinksGameOnly(game, chat, mods) ==
    LET g == IF game # None THEN RemoveSink(mods, game)
             ELSE [modules |-> mods, ops |-> <<>>]
    IN  [game |-> None, chat |-> chat, modules |-> g.modules, ops |-> g.ops]

\* Mutant: the handles are not reset to None
RemoveVirtualSinksKeepsHandles(game, chat, mods) ==
    LET g == IF game # None THEN RemoveSink(mods, game)
             ELSE [modules |-> mods, ops |-> <<>>]
        c == IF chat # None THEN RemoveSink(g.modules, chat)
             ELSE [modules |-> g.modules, ops |-> <<>>]
    IN  [game |-> game, chat |-> chat, modules |-> c.modules,
         ops |-> g.ops \o c.ops]

\* _remove_virtual_sinks from handles (game, chat) and the server's modules.
RemoveVirtualSinks(game, chat, mods) ==
    LET g == IF game # None THEN RemoveSink(mods, game)
             ELSE [modules |-> mods, ops |-> <<>>]
        c == IF chat # None THEN RemoveSink(g.modules, chat)
             ELSE [modules |-> g.modules, ops |-> <<>>]
    IN  [game |-> None, chat |-> None, modules |-> c.modules,
         ops |-> g.ops \o c.ops]

\* Mutant: the raw byte is not scaled
VolumeUnscaled(raw) == [num |-> raw, den |-> 1]

\* gamevol * 0.01, kept as the fraction raw/100
Volume(raw) == [num |-> raw, den |-> 100]

\* _set_sink_volume: the sink owned by module_id, when the server has it, gets
\* the volume; a PulseError is caught and printed.
SetSinkVolume(module_id, volume, mods, outcome) ==
    << Op("_set_sink_volume", module_id, volume) >> \o
    ( IF outcome = "ok" /\ module_id \in Indexes(mods)
      THEN << Op("volume_set_all_chans", module_id, volume) >>
      ELSE <<>> )

(* ------------------------------------------------------------------ *)
(* Initial state: the class attributes, before chatmix() is called    *)
(* ------------------------------------------------------------------ *)
\* No call in progress: site is the caller of _remove_virtual_sinks,
\* module_id is _remove_sink's argument, new_sink is _create_sink's local.
NoLocals == [site |-> "none", module_id |-> None, new_sink |-> None]

InitController ==
    /\ pc = "idle"
    /\ CLOSE = FALSE
    /\ CHATMIX_CONTROLS_ENABLED = FALSE
    /\ SONAR_ICON_ENABLED = FALSE
    /\ PW_LOOPBACK_GAME_MODULE_ID = None
    /\ PW_LOOPBACK_CHAT_MODULE_ID = None
    /\ msg = <<>>
    /\ modules = {}
    /\ nextIndex = 1
    /\ ops = <<>>
    /\ act = "init"
    /\ prevAct = "init"
    /\ runs = 0
    /\ reads = 0
    /\ local = NoLocals
    /\ unloads = <<>>

Init ==
    /\ InitController
    /\ PW_ORIGINAL_SINK \in {Unset, "manual"}
    /\ sinkList \in PhysicalSinkLists
    /\ data = <<>>
    /\ msgdata = NotCalled

Step(name) ==
    /\ act' = name
    /\ prevAct' = act

\* The caller is not inside chatmix().
CallerReady == pc \in {"idle", "returned", "raised"}

(* ------------------------------------------------------------------ *)
(* Control operations                                                 *)
(* ------------------------------------------------------------------ *)
\* set_chatmix_controls(state): one write, then the flag
ChatmixControlsCall(state) ==
    [ops |-> << Write(OPT_CHATMIX_ENABLE, BoolInt(state)) >>, flag |-> state]

\* Mutant: the flag is set whatever the state
SonarIconCallFlagStuck(state) ==
    [ops |-> << Write(OPT_SONAR_ICON, BoolInt(state)) >>, flag |-> TRUE]

\* set_sonar_icon(state): one write, then the flag
SonarIconCall(state) ==
    [ops |-> << Write(OPT_SONAR_ICON, BoolInt(state)) >>, flag |-> state]

SetChatmixControls(state) ==
    /\ CallerReady
    /\ ops' = ChatmixControlsCall(state).ops
    /\ CHATMIX_CONTROLS_ENABLED' = ChatmixControlsCall(state).flag
    /\ Step("set_chatmix_controls")
    /\ UNCHANGED << pc, CLOSE, SONAR_ICON_ENABLED, PW_ORIGINAL_SINK, handles,
                    msg, modules, nextIndex, sinkList, runs, reads, codec, frame >>

SetSonarIcon(state) ==
    /\ CallerReady
    /\ ops' = SonarIconCall(state).ops
    /\ SONAR_ICON_ENABLED' = SonarIconCall(state).flag
    /\ Step("set_sonar_icon")
    /\ UNCHANGED << pc, CLOSE, CHATMIX_CONTROLS_ENABLED, PW_ORIGINAL_SINK,
                    handles, msg, modules, nextIndex, sinkList, runs, reads,
                    codec, frame >>

SetVolume(attenuation) ==
    /\ CallerReady
    /\ ops' = << Write(OPT_VOLUME, attenuation) >>
    /\ Step("set_volume")
    /\ UNCHANGED << pc, CLOSE, flags, PW_ORIGINAL_SINK, handles, msg, modules,
                    nextIndex, sinkList, runs, reads, codec, frame >>

SetEqPreset(preset) ==
    /\ CallerReady
    /\ ops' = << Write(OPT_EQ_PRESET, preset) >>
    /\ Step("set_eq_preset")
    /\ UNCHANGED << pc, CLOSE, flags, PW_ORIGINAL_SINK, handles, msg, modules,
                    nextIndex, sinkList, runs, reads, codec, frame >>

(* ------------------------------------------------------------------ *)
(* chatmix()                                                          *)
(* ------------------------------------------------------------------ *)
\* _create_sink: module_load gives the new module's index; when it raises
\* PulseError the handler reads new_sink, which was never bound, and
\* UnboundLocalError leaves _create_sink (and chatmix(), which catches nothing
\* here).
CreateSink(sink_name, output_sink, mods, idx, outcome) ==
    IF outcome = "ok"
    THEN [raised |-> "no", new_sink |-> idx,
          modules |-> mods \cup
              {[index |-> idx, sink_name |-> sink_name, slaves |-> output_sink]},
          nextIndex |-> idx + 1,
          ops |-> << Op("module_load", sink_name, output_sink) >>]
    ELSE [raised |-> "UnboundLocalError", new_sink |-> None,
          modules |-> mods, nextIndex |-> idx,
          ops |-> << Op("module_load", sink_name, output_sink) >>]

\* chatmix() is entered: _start_virtual_sinks detects the original sink and
\* removes the sinks the handles name.
ChatmixStart ==
    /\ CallerReady
    /\ runs < MaxRuns
    /\ LET r == RemoveVirtualSinks(PW_LOOPBACK_GAME_MODULE_ID,
                                   PW_LOOPBACK_CHAT_MODULE_ID, modules)
       IN  /\ PW_ORIGINAL_SINK' = DetectOriginalSink(PW_ORIGINAL_SINK, sinkList)
           /\ PW_LOOPBACK_GAME_MODULE_ID' = r.game
           /\ PW_LOOPBACK_CHAT_MODULE_ID' = r.chat
           /\ modules' = r.modules
           /\ ops' = r.ops
    /\ pc' = "create_game"
    /\ runs' = runs + 1
    /\ reads' = 0
    /\ msg' = <<>>
    /\ Step("chatmix_start")
    /\ UNCHANGED << CLOSE, flags, nextIndex, sinkList, codec, frame >>

\* self.PW_LOOPBACK_GAME_MODULE_ID = self._create_sink(PW_GAME_SINK, ...)
CreateGameSink ==
    /\ pc = "create_game"
    /\ \E outcome \in {"ok", "PulseError"} :
         LET r == CreateSink(PW_GAME_SINK, PW_ORIGINAL_SINK, modules, nextIndex,
                             outcome)
         IN  /\ modules' = r.modules
             /\ nextIndex' = r.nextIndex
             /\ ops' = r.ops
             /\ IF r.raised = "no"
                THEN /\ PW_LOOPBACK_GAME_MODULE_ID' = r.new_sink
                     /\ pc' = "create_chat"
                     /\ Step("create_game_sink")
                ELSE /\ UNCHANGED PW_LOOPBACK_GAME_MODULE_ID
                     /\ pc' = "raised"
                     /\ Step("create_game_sink_raised")
    /\ UNCHANGED << CLOSE, flags, PW_ORIGINAL_SINK, PW_LOOPBACK_CHAT_MODULE_ID,
                    msg, sinkList, runs, reads, codec, frame >>

\* self.PW_LOOPBACK_CHAT_MODULE_ID = self._create_sink(PW_CHAT_SINK, ...)
CreateChatSink ==
    /\ pc = "create_chat"
    /\ \E outcome \in {"ok", "PulseError"} :
         LET r == CreateSink(PW_CHAT_SINK, PW_ORIGINAL_SINK, modules, nextIndex,
                             outcome)
         IN  /\ modules' = r.modules
             /\ nextIndex' = r.nextIndex
             /\ ops' = r.ops
             /\ IF r.raised = "no"
                THEN /\ PW_LOOPBACK_CHAT_MODULE_ID' = r.new_sink
                     /\ pc' = "loop"
                     /\ Step("create_chat_sink")
                ELSE /\ UNCHANGED PW_LOOPBACK_CHAT_MODULE_ID
                     /\ pc' = "raised"
                     /\ Step("create_chat_sink_raised")
    /\ UNCHANGED << CLOSE, flags, PW_ORIGINAL_SINK, PW_LOOPBACK_GAME_MODULE_ID,
                    msg, sinkList, runs, reads, codec, frame >>

\* while not self.CLOSE: the loop is entered and dev.read is called
Reading ==
    /\ pc = "loop"
    /\ ~CLOSE
    /\ reads < MaxReads
    /\ reads' = reads + 1

ReadCall == Op("read", ENDPOINT_RX, MSGLEN)

\* Mutant: the opcode is not tested, the message is taken for a report
ReadOtherApplied(opcode) ==
    /\ Reading
    /\ msg' = << RX, opcode, 0, 0 >>
    /\ ops' = << ReadCall >>
    /\ pc' = "vol_game"
    /\ Step("read_other")
    /\ UNCHANGED << CLOSE, flags, PW_ORIGINAL_SINK, handles, modules, nextIndex,
                    sinkList, runs, codec, frame >>

\* dev.read returns a message whose opcode is not OPT_CHATMIX: continue
ReadOther(opcode) ==
    /\ Reading
    /\ msg' = << RX, opcode, 0, 0 >>
    /\ ops' = << ReadCall >>
    /\ pc' = "loop"
    /\ Step("read_other")
    /\ UNCHANGED << CLOSE, flags, PW_ORIGINAL_SINK, handles, modules, nextIndex,
                    sinkList, runs, codec, frame >>

\* dev.read returns a ChatMix report
ReadChatmix(gamevol, chatvol) ==
    /\ Reading
    /\ msg' = << RX, OPT_CHATMIX, gamevol, chatvol >>
    /\ ops' = << ReadCall >>
    /\ pc' = "vol_game"
    /\ Step("read_chatmix")
    /\ UNCHANGED << CLOSE, flags, PW_ORIGINAL_SINK, handles, modules, nextIndex,
                    sinkList, runs, codec, frame >>

\* self._set_sink_volume(self.PW_LOOPBACK_GAME_MODULE_ID, gamevol * 0.01)
SetGameVolume ==
    /\ pc = "vol_game"
    /\ \E outcome \in {"ok", "PulseError"} :
         ops' = SetSinkVolume(PW_LOOPBACK_GAME_MODULE_ID, Volume(msg[3]),
                              modules, outcome)
    /\ pc' = "vol_chat"
    /\ Step("set_game_volume")
    /\ UNCHANGED << CLOSE, flags, PW_ORIGINAL_SINK, handles, msg, modules,
                    nextIndex, sinkList, runs, reads, codec, frame >>

\* self._set_sink_volume(self.PW_LOOPBACK_CHAT_MODULE_ID, chatvol * 0.01)
SetChatVolume ==
    /\ pc = "vol_chat"
    /\ \E outcome \in {"ok", "PulseError"} :
         ops' = SetSinkVolume(PW_LOOPBACK_CHAT_MODULE_ID, Volume(msg[4]),
                              modules, outcome)
    /\ pc' = "loop"
    /\ Step("set_chat_volume")
    /\ UNCHANGED << CLOSE, flags, PW_ORIGINAL_SINK, handles, msg, modules,
                    nextIndex, sinkList, runs, reads, codec, frame >>

\* Mutant: the timeout is handled as any other USBError
ReadTimeoutFatal ==
    /\ Reading
    /\ CLOSE' = TRUE
    /\ LET r == RemoveVirtualSinks(PW_LOOPBACK_GAME_MODULE_ID,
                                   PW_LOOPBACK_CHAT_MODULE_ID, modules)
       IN  /\ PW_LOOPBACK_GAME_MODULE_ID' = r.game
           /\ PW_LOOPBACK_CHAT_MODULE_ID' = r.chat
           /\ modules' = r.modules
           /\ ops' = << ReadCall >> \o r.ops
    /\ pc' = "loop"
    /\ Step("read_timeout")
    /\ UNCHANGED << flags, PW_ORIGINAL_SINK, msg, nextIndex, sinkList, runs,
                    codec, frame >>

\* dev.read raises USBTimeoutError: continue
ReadTimeout ==
    /\ Reading
    /\ ops' = << ReadCall >>
    /\ pc' = "loop"
    /\ Step("read_timeout")
    /\ UNCHANGED << CLOSE, flags, PW_ORIGINAL_SINK, handles, msg, modules,
                    nextIndex, sinkList, runs, codec, frame >>

\* Mutant: CLOSE is not set by the handler
ReadErrorNoStop ==
    /\ Reading
    /\ LET r == RemoveVirtualSinks(PW_LOOPBACK_GAME_MODULE_ID,
                                   PW_LOOPBACK_CHAT_MODULE_ID, modules)
       IN  /\ PW_LOOPBACK_GAME_MODULE_ID' = r.game
           /\ PW_LOOPBACK_CHAT_MODULE_ID' = r.chat
           /\ modules' = r.modules
           /\ ops' = << ReadCall >> \o r.ops
    /\ pc' = "loop"
    /\ Step("read_error")
    /\ UNCHANGED << CLOSE, flags, PW_ORIGINAL_SINK, msg, nextIndex, sinkList,
                    runs, codec, frame >>

\* dev.read raises another USBError: CLOSE is set and the sinks are removed
ReadError ==
    /\ Reading
    /\ CLOSE' = TRUE
    /\ LET r == RemoveVirtualSinks(PW_LOOPBACK_GAME_MODULE_ID,
                                   PW_LOOPBACK_CHAT_MODULE_ID, modules)
       IN  /\ PW_LOOPBACK_GAME_MODULE_ID' = r.game
           /\ PW_LOOPBACK_CHAT_MODULE_ID' = r.chat
           /\ modules' = r.modules
           /\ ops' = << ReadCall >> \o r.ops
    /\ pc' = "loop"
    /\ Step("read_error")
    /\ UNCHANGED << flags, PW_ORIGINAL_SINK, msg, nextIndex, sinkList, runs,
                    codec, frame >>

\* the loop ends (CLOSE is set): "Remove virtual sinks on exit", and return
ChatmixExit ==
    /\ pc = "loop"
    /\ CLOSE
    /\ LET r == RemoveVirtualSinks(PW_LOOPBACK_GAME_MODULE_ID,
                                   PW_LOOPBACK_CHAT_MODULE_ID, modules)
       IN  /\ PW_LOOPBACK_GAME_MODULE_ID' = r.game
           /\ PW_LOOPBACK_CHAT_MODULE_ID' = r.chat
           /\ modules' = r.modules
           /\ ops' = r.ops
    /\ pc' = "returned"
    /\ Step("chatmix_exit")
    /\ UNCHANGED << CLOSE, flags, PW_ORIGINAL_SINK, msg, nextIndex, sinkList,
                    runs, reads, codec, frame >>

(* ------------------------------------------------------------------ *)
(* close()                                                            *)
(* ------------------------------------------------------------------ *)
\* Mutant: the feature is disabled whether or not it was enabled
DisableAlways(enabled, call) == call

\* if self.X_ENABLED: self.set_x(False)
DisableIfEnabled(enabled, call) ==
    IF enabled THEN call ELSE [ops |-> <<>>, flag |-> enabled]

\* close() as the caller's call or as the handler of SIGINT/SIGTERM, taken
\* while the caller is outside chatmix() or at the loop's iteration boundary.
Close ==
    /\ CallerReady \/ pc = "loop"
    /\ CLOSE' = TRUE
    /\ LET c == DisableIfEnabled(CHATMIX_CONTROLS_ENABLED,
                                 ChatmixControlsCall(FALSE))
           s == DisableIfEnabled(SONAR_ICON_ENABLED, SonarIconCall(FALSE))
           r == RemoveVirtualSinks(PW_LOOPBACK_GAME_MODULE_ID,
                                   PW_LOOPBACK_CHAT_MODULE_ID, modules)
       IN  /\ CHATMIX_CONTROLS_ENABLED' = c.flag
           /\ SONAR_ICON_ENABLED' = s.flag
           /\ PW_LOOPBACK_GAME_MODULE_ID' = r.game
           /\ PW_LOOPBACK_CHAT_MODULE_ID' = r.chat
           /\ modules' = r.modules
           /\ ops' = c.ops \o s.ops \o r.ops
    /\ Step("close")
    /\ UNCHANGED << pc, PW_ORIGINAL_SINK, msg, nextIndex, sinkList, runs, reads,
                    codec, frame >>

(* ------------------------------------------------------------------ *)
(* The audio server's side                                            *)
(* ------------------------------------------------------------------ *)
\* A module is unloaded by someone else (pactl unload-module): the case
\* _remove_sink's "if it exists" and _set_sink_volume's "not found" are for.
ExternalUnload(m) ==
    /\ m \in modules
    /\ modules' = modules \ {m}
    /\ ops' = <<>>
    /\ Step("external_unload")
    /\ UNCHANGED << pc, CLOSE, flags, PW_ORIGINAL_SINK, handles, msg, nextIndex,
                    sinkList, runs, reads, codec, frame >>

(* ------------------------------------------------------------------ *)
(* Specifications                                                     *)
(* ------------------------------------------------------------------ *)
Next ==
    \/ \E state \in BOOLEAN : SetChatmixControls(state)
    \/ \E state \in BOOLEAN : SetSonarIcon(state)
    \/ \E attenuation \in Attenuations : SetVolume(attenuation)
    \/ \E preset \in Presets : SetEqPreset(preset)
    \/ ChatmixStart
    \/ CreateGameSink
    \/ CreateChatSink
    \/ \E opcode \in OtherOpcodes : ReadOther(opcode)
    \/ \E r \in Reports : ReadChatmix(r[1], r[2])
    \/ SetGameVolume
    \/ SetChatVolume
    \/ ReadTimeout
    \/ ReadError
    \/ ChatmixExit
    \/ Close

\* The controller with a device that answers or fails reads and an audio
\* server that creates sinks or fails to.
Spec == Init /\ [][Next]_vars

NextEnv ==
    \/ Next
    \/ \E m \in modules : ExternalUnload(m)

\* The same, with modules also unloaded behind the controller's back.
SpecEnv == Init /\ [][NextEnv]_vars

\* _create_msgdata applied to one tuple
InitCodec ==
    /\ InitController
    /\ PW_ORIGINAL_SINK = Unset
    /\ sinkList = <<>>
    /\ data \in DataInputs
    /\ msgdata = NotCalled

Encode ==
    /\ msgdata = NotCalled
    /\ msgdata' = CreateMsgdata(data)
    /\ UNCHANGED << pc, CLOSE, flags, PW_ORIGINAL_SINK, handles, msg, modules,
                    nextIndex, sinkList, ops, act, prevAct, runs, reads, data,
                    frame >>

SpecCodec == InitCodec /\ [][Encode]_vars

(* ------------------------------------------------------------------ *)
(* Failing teardown: module_unload or dev.write raises                *)
(* ------------------------------------------------------------------ *)
FailedSinks == {"game", "chat"}

\* module_unload can raise only for a module that _remove_sink found listed.
CanFail(game, chat, mods, failed) ==
    IF failed = "game" THEN game \in Indexes(mods) ELSE chat \in Indexes(mods)

\* _remove_sink where module_unload raises PulseError: nothing catches it in
\* _remove_sink nor in _remove_virtual_sinks, the module stays loaded.
RemoveSinkRaises(module_id) ==
    << Op("_remove_sink", module_id, None), Op("module_unload", module_id, None) >>

\* _remove_virtual_sinks left by the PulseError of the failed sink's unload:
\* the assignments and calls after the raising line are not executed.
RemoveVirtualSinksRaises(game, chat, mods, failed) ==
    IF failed = "game"
    THEN [game |-> game, chat |-> chat, modules |-> mods,
          ops |-> RemoveSinkRaises(game)]
    ELSE LET g == IF game # None THEN RemoveSink(mods, game)
                  ELSE [modules |-> mods, ops |-> <<>>]
         IN  [game |-> None, chat |-> chat, modules |-> g.modules,
              ops |-> g.ops \o RemoveSinkRaises(chat)]

\* chatmix() is entered and _start_virtual_sinks' _remove_virtual_sinks raises
ChatmixStartRemoveFails ==
    /\ CallerReady
    /\ runs < MaxRuns
    /\ \E failed \in FailedSinks :
         /\ CanFail(PW_LOOPBACK_GAME_MODULE_ID, PW_LOOPBACK_CHAT_MODULE_ID,
                    modules, failed)
         /\ LET r == RemoveVirtualSinksRaises(PW_LOOPBACK_GAME_MODULE_ID,
                         PW_LOOPBACK_CHAT_MODULE_ID, modules, failed)
            IN  /\ PW_LOOPBACK_GAME_MODULE_ID' = r.game
                /\ PW_LOOPBACK_CHAT_MODULE_ID' = r.chat
                /\ modules' = r.modules
                /\ ops' = r.ops
    /\ PW_ORIGINAL_SINK' = DetectOriginalSink(PW_ORIGINAL_SINK, sinkList)
    /\ pc' = "raised"
    /\ runs' = runs + 1
    /\ reads' = 0
    /\ msg' = <<>>
    /\ Step("chatmix_start_remove_failed")
    /\ UNCHANGED << CLOSE, flags, nextIndex, sinkList, codec, frame >>

\* dev.read raises USBError and the handler's _remove_virtual_sinks raises:
\* the PulseError leaves the handler and chatmix()
ReadErrorRemoveFails ==
    /\ Reading
    /\ CLOSE' = TRUE
    /\ \E failed \in FailedSinks :
         /\ CanFail(PW_LOOPBACK_GAME_MODULE_ID, PW_LOOPBACK_CHAT_MODULE_ID,
                    modules, failed)
         /\ LET r == RemoveVirtualSinksRaises(PW_LOOPBACK_GAME_MODULE_ID,
                         PW_LOOPBACK_CHAT_MODULE_ID, modules, failed)
            IN  /\ PW_LOOPBACK_GAME_MODULE_ID' = r.game
                /\ PW_LOOPBACK_CHAT_MODULE_ID' = r.chat
                /\ modules' = r.modules
                /\ ops' = << ReadCall >> \o r.ops
    /\ pc' = "raised"
    /\ Step("read_error_remove_failed")
    /\ UNCHANGED << flags, PW_ORIGINAL_SINK, msg, nextIndex, sinkList, runs,
                    codec, frame >>

\* the loop has ended and the _remove_virtual_sinks on exit raises
ChatmixExitRemoveFails ==
    /\ pc = "loop"
    /\ CLOSE
    /\ \E failed \in FailedSinks :
         /\ CanFail(PW_LOOPBACK_GAME_MODULE_ID, PW_LOOPBACK_CHAT_MODULE_ID,
                    modules, failed)
         /\ LET r == RemoveVirtualSinksRaises(PW_LOOPBACK_GAME_MODULE_ID,
                         PW_LOOPBACK_CHAT_MODULE_ID, modules, failed)
            IN  /\ PW_LOOPBACK_GAME_MODULE_ID' = r.game
                /\ PW_LOOPBACK_CHAT_MODULE_ID' = r.chat
                /\ modules' = r.modules
                /\ ops' = r.ops
    /\ pc' = "raised"
    /\ Step("chatmix_exit_remove_failed")
    /\ UNCHANGED << CLOSE, flags, PW_ORIGINAL_SINK, msg, nextIndex, sinkList,
                    runs, reads, codec, frame >>

\* close() whose writes succeed and whose _remove_virtual_sinks raises: the
\* PulseError leaves close() and, when close() ran as the signal's handler
\* inside chatmix(), chatmix() as well (the loop catches USBError only).
CloseRemoveFails ==
    /\ CallerReady \/ pc = "loop"
    /\ CLOSE' = TRUE
    /\ \E failed \in FailedSinks :
         /\ CanFail(PW_LOOPBACK_GAME_MODULE_ID, PW_LOOPBACK_CHAT_MODULE_ID,
                    modules, failed)
         /\ LET c == DisableIfEnabled(CHATMIX_CONTROLS_ENABLED,
                                      ChatmixControlsCall(FALSE))
                s == DisableIfEnabled(SONAR_ICON_ENABLED, SonarIconCall(FALSE))
                r == RemoveVirtualSinksRaises(PW_LOOPBACK_GAME_MODULE_ID,
                         PW_LOOPBACK_CHAT_MODULE_ID, modules, failed)
            IN  /\ CHATMIX_CONTROLS_ENABLED' = c.flag
                /\ SONAR_ICON_ENABLED' = s.flag
                /\ PW_LOOPBACK_GAME_MODULE_ID' = r.game
                /\ PW_LOOPBACK_CHAT_MODULE_ID' = r.chat
                /\ modules' = r.modules
                /\ ops' = c.ops \o s.ops \o r.ops
    /\ pc' = IF pc = "loop" THEN "raised" ELSE pc
    /\ Step("close_remove_failed")
    /\ UNCHANGED << PW_ORIGINAL_SINK, msg, nextIndex, sinkList, runs, reads,
                    codec, frame >>

FailedWrites == {"chatmix_controls", "sonar_icon"}

\* Where the exception of a write inside close() ends: it leaves close() and
\* its caller; or, close() having run as the signal's handler inside the
\* loop's try block, the loop catches it as USBTimeoutError (continue) or as
\* USBError (CLOSE is set and the sinks are removed).
WriteErrorEnds == {"propagates", "caught_timeout", "caught_usb_error"}

\* close() where the dev.write of a feature's disabling raises: the feature's
\* flag is not reset (the assignment follows the write), and the rest of
\* close(), _remove_virtual_sinks included, is not executed.
CloseWriteFails(failed, ends) ==
    /\ CallerReady \/ pc = "loop"
    /\ ends # "propagates" => pc = "loop"
    /\ CLOSE' = TRUE
    /\ LET c == DisableIfEnabled(CHATMIX_CONTROLS_ENABLED,
                                 ChatmixControlsCall(FALSE))
           w == IF failed = "chatmix_controls"
                THEN [ops |-> ChatmixControlsCall(FALSE).ops,
                      chatmix |-> CHATMIX_CONTROLS_ENABLED]
                ELSE [ops |-> c.ops \o SonarIconCall(FALSE).ops,
                      chatmix |-> c.flag]
           r == IF ends = "caught_usb_error"
                THEN RemoveVirtualSinks(PW_LOOPBACK_GAME_MODULE_ID,
                                        PW_LOOPBACK_CHAT_MODULE_ID, modules)
                ELSE [game |-> PW_LOOPBACK_GAME_MODULE_ID,
                      chat |-> PW_LOOPBACK_CHAT_MODULE_ID,
                      modules |-> modules, ops |-> <<>>]
       IN  /\ IF failed = "chatmix_controls"
              THEN CHATMIX_CONTROLS_ENABLED
              ELSE SONAR_ICON_ENABLED
           /\ CHATMIX_CONTROLS_ENABLED' = w.chatmix
           /\ PW_LOOPBACK_GAME_MODULE_ID' = r.game
           /\ PW_LOOPBACK_CHAT_MODULE_ID' = r.chat
           /\ modules' = r.modules
           /\ ops' = w.ops \o r.ops
    /\ pc' = IF pc = "loop" /\ ends = "propagates" THEN "raised" ELSE pc
    /\ Step("close_write_failed")
    /\ UNCHANGED << SONAR_ICON_ENABLED, PW_ORIGINAL_SINK, msg, nextIndex,
                    sinkList, runs, reads, codec, frame >>

InitFaults ==
    /\ InitController
    /\ PW_ORIGINAL_SINK = Unset
    /\ sinkList = << "hdmi", "Nova.analog" >>
    /\ data = <<>>
    /\ msgdata = NotCalled

NextFaults ==
    \/ Next
    \/ ChatmixStartRemoveFails
    \/ ReadErrorRemoveFails
    \/ ChatmixExitRemoveFails
    \/ CloseRemoveFails
    \/ \E failed \in FailedWrites, ends \in WriteErrorEnds :
         CloseWriteFails(failed, ends)

\* The controller with an audio server whose module_unload can fail and a
\* device whose writes can fail.
SpecFaults == InitFaults /\ [][NextFaults]_vars

(* ------------------------------------------------------------------ *)
(* close() as the handler of SIGINT/SIGTERM, run between any two      *)
(* statements of the main thread's chatmix()                          *)
(* ------------------------------------------------------------------ *)
SinkKinds == {"game", "chat"}

Handle(sink) ==
    IF sink = "game" THEN PW_LOOPBACK_GAME_MODULE_ID
    ELSE PW_LOOPBACK_CHAT_MODULE_ID

SinkName(sink) == IF sink = "game" THEN PW_GAME_SINK ELSE PW_CHAT_SINK

\* Every handle but sink's is left as it is
OtherHandleUnchanged(sink) ==
    IF sink = "game" THEN UNCHANGED PW_LOOPBACK_CHAT_MODULE_ID
    ELSE UNCHANGED PW_LOOPBACK_GAME_MODULE_ID

SetHandle(sink, value) ==
    /\ IF sink = "game" THEN PW_LOOPBACK_GAME_MODULE_ID' = value
       ELSE PW_LOOPBACK_CHAT_MODULE_ID' = value
    /\ OtherHandleUnchanged(sink)

\* Where the main thread goes on once _remove_virtual_sinks is done with sink:
\* to the chat sink's removal, then back to the caller (site).
AfterRemoval(sink, site) ==
    IF sink = "game" THEN "rm_chat"
    ELSE IF site = "start" THEN "create_game"
    ELSE IF site = "error" THEN "loop"
    ELSE "returned"

\* The ids of the module_unload calls among a step's calls
UnloadIds(seq) ==
    LET u == SelectSeq(seq, LAMBDA o : o.op = "module_unload")
    IN  [i \in 1..Len(u) |-> u[i].id]

\* signal(SIGINT, nova.close) done, nova.chatmix() about to be called:
\* set_sonar_icon(True) and set_chatmix_controls(True) have been made.
InitAsync ==
    /\ pc = "idle"
    /\ CLOSE = FALSE
    /\ CHATMIX_CONTROLS_ENABLED = TRUE
    /\ SONAR_ICON_ENABLED = TRUE
    /\ PW_ORIGINAL_SINK = Unset
    /\ PW_LOOPBACK_GAME_MODULE_ID = None
    /\ PW_LOOPBACK_CHAT_MODULE_ID = None
    /\ msg = <<>>
    /\ modules = {}
    /\ nextIndex = 1
    /\ sinkList = << "hdmi", "Nova.analog" >>
    /\ ops = << Write(OPT_CHATMIX_ENABLE, 1) >>
    /\ act = "set_chatmix_controls"
    /\ prevAct = "set_sonar_icon"
    /\ runs = 0
    /\ reads = 0
    /\ data = <<>>
    /\ msgdata = NotCalled
    /\ local = NoLocals
    /\ unloads = <<>>

\* chatmix() is called: _detect_original_sink, then _remove_virtual_sinks
AsyncStart ==
    /\ pc = "idle"
    /\ PW_ORIGINAL_SINK' = DetectOriginalSink(PW_ORIGINAL_SINK, sinkList)
    /\ pc' = "rm_game"
    /\ local' = [local EXCEPT !.site = "start"]
    /\ runs' = runs + 1
    /\ reads' = 0
    /\ msg' = <<>>
    /\ ops' = <<>>
    /\ Step("chatmix_start")
    /\ UNCHANGED << CLOSE, flags, handles, modules, nextIndex, sinkList, codec,
                    unloads >>

\* if self.HANDLE is not None: self._remove_sink(self.HANDLE), as far as
\* _remove_sink's search of module_list()
RemoveTest(sink) ==
    /\ pc = "rm_" \o sink
    /\ IF Handle(sink) = None
       THEN /\ pc' = AfterRemoval(sink, local.site)
            /\ ops' = <<>>
            /\ UNCHANGED local
       ELSE /\ pc' = IF Handle(sink) \in Indexes(modules)
                     THEN "unload_" \o sink ELSE "clear_" \o sink
            /\ ops' = << Op("_remove_sink", Handle(sink), None) >>
            /\ local' = [local EXCEPT !.module_id = Handle(sink)]
    /\ Step("remove_test_" \o sink)
    /\ UNCHANGED << CLOSE, flags, PW_ORIGINAL_SINK, handles, msg, modules,
                    nextIndex, sinkList, runs, reads, codec, unloads >>

\* What the audio server answers to the unload of a module it no longer has
StaleUnloadOutcomes == {"ok", "PulseError"}

\* pulse.module_unload(module.index) of the module found in the list; when
\* the module has been unloaded since, the server ignores the call or fails
\* it, and the PulseError leaves chatmix().
RemoveUnload(sink) ==
    /\ pc = "unload_" \o sink
    /\ IF local.module_id \in Indexes(modules)
       THEN /\ modules' = { m \in modules : m.index # local.module_id }
            /\ pc' = "clear_" \o sink
       ELSE /\ UNCHANGED modules
            /\ \E outcome \in StaleUnloadOutcomes :
                 pc' = IF outcome = "ok" THEN "clear_" \o sink ELSE "raised"
    /\ unloads' = Append(unloads, local.module_id)
    /\ ops' = << Op("module_unload", local.module_id, None) >>
    /\ Step("remove_unload_" \o sink)
    /\ UNCHANGED << CLOSE, flags, PW_ORIGINAL_SINK, handles, msg, nextIndex,
                    sinkList, runs, reads, codec, local >>

\* self.HANDLE = None
RemoveClear(sink) ==
    /\ pc = "clear_" \o sink
    /\ SetHandle(sink, None)
    /\ pc' = AfterRemoval(sink, local.site)
    /\ ops' = <<>>
    /\ Step("remove_clear_" \o sink)
    /\ UNCHANGED << CLOSE, flags, PW_ORIGINAL_SINK, msg, modules, nextIndex,
                    sinkList, runs, reads, codec, frame >>

\* _create_sink: new_sink = pulse.module_load(...), which succeeds
LoadSink(sink) ==
    /\ pc = "create_" \o sink
    /\ LET r == CreateSink(SinkName(sink), PW_ORIGINAL_SINK, modules, nextIndex,
                           "ok")
       IN  /\ modules' = r.modules
           /\ nextIndex' = r.nextIndex
           /\ ops' = r.ops
           /\ local' = [local EXCEPT !.new_sink = r.new_sink]
    /\ pc' = "store_" \o sink
    /\ Step("load_" \o sink)
    /\ UNCHANGED << CLOSE, flags, PW_ORIGINAL_SINK, handles, msg, sinkList, runs,
                    reads, codec, unloads >>

\* self.HANDLE = (the value _create_sink returned)
StoreHandle(sink) ==
    /\ pc = "store_" \o sink
    /\ SetHandle(sink, local.new_sink)
    /\ pc' = IF sink = "game" THEN "create_chat" ELSE "loop"
    /\ ops' = <<>>
    /\ Step("store_" \o sink)
    /\ UNCHANGED << CLOSE, flags, PW_ORIGINAL_SINK, msg, modules, nextIndex,
                    sinkList, runs, reads, codec, frame >>

\* dev.read raises USBError: CLOSE = True, then _remove_virtual_sinks
AsyncReadError ==
    /\ Reading
    /\ CLOSE' = TRUE
    /\ ops' = << ReadCall >>
    /\ pc' = "rm_game"
    /\ local' = [local EXCEPT !.site = "error"]
    /\ Step("read_error")
    /\ UNCHANGED << flags, PW_ORIGINAL_SINK, handles, msg, modules, nextIndex,
                    sinkList, runs, codec, unloads >>

\* while not self.CLOSE fails: the _remove_virtual_sinks on exit begins
AsyncExit ==
    /\ pc = "loop"
    /\ CLOSE
    /\ pc' = "rm_game"
    /\ local' = [local EXCEPT !.site = "exit"]
    /\ ops' = <<>>
    /\ Step("loop_exit")
    /\ UNCHANGED << CLOSE, flags, PW_ORIGINAL_SINK, handles, msg, modules,
                    nextIndex, sinkList, runs, reads, codec, unloads >>

\* Mutant: the handler does everything but set CLOSE
AsyncCloseFlagNotSet ==
    /\ pc \notin {"returned", "raised"}
    /\ LET c == DisableIfEnabled(CHATMIX_CONTROLS_ENABLED,
                                 ChatmixControlsCall(FALSE))
           s == DisableIfEnabled(SONAR_ICON_ENABLED, SonarIconCall(FALSE))
           r == RemoveVirtualSinks(PW_LOOPBACK_GAME_MODULE_ID,
                                   PW_LOOPBACK_CHAT_MODULE_ID, modules)
       IN  /\ CHATMIX_CONTROLS_ENABLED' = c.flag
           /\ SONAR_ICON_ENABLED' = s.flag
           /\ PW_LOOPBACK_GAME_MODULE_ID' = r.game
           /\ PW_LOOPBACK_CHAT_MODULE_ID' = r.chat
           /\ modules' = r.modules
           /\ ops' = c.ops \o s.ops \o r.ops
           /\ unloads' = unloads \o UnloadIds(r.ops)
    /\ Step("close")
    /\ UNCHANGED << pc, CLOSE, PW_ORIGINAL_SINK, msg, nextIndex, sinkList, runs,
                    reads, codec, local >>

\* close(signum, frame) run whole by the interpreter between two statements
\* of the main thread, wherever chatmix() is.
AsyncClose ==
    /\ pc \notin {"returned", "raised"}
    /\ CLOSE' = TRUE
    /\ LET c == DisableIfEnabled(CHATMIX_CONTROLS_ENABLED,
                                 ChatmixControlsCall(FALSE))
           s == DisableIfEnabled(SONAR_ICON_ENABLED, SonarIconCall(FALSE))
           r == RemoveVirtualSinks(PW_LOOPBACK_GAME_MODULE_ID,
                                   PW_LOOPBACK_CHAT_MODULE_ID, modules)
       IN  /\ CHATMIX_CONTROLS_ENABLED' = c.flag
           /\ SONAR_ICON_ENABLED' = s.flag
           /\ PW_LOOPBACK_GAME_MODULE_ID' = r.game
           /\ PW_LOOPBACK_CHAT_MODULE_ID' = r.chat
           /\ modules' = r.modules
           /\ ops' = c.ops \o s.ops \o r.ops
           /\ unloads' = unloads \o UnloadIds(r.ops)
    /\ Step("close")
    /\ UNCHANGED << pc, PW_ORIGINAL_SINK, msg, nextIndex, sinkList, runs, reads,
                    codec, local >>

\* The main thread's next statement
MainStep ==
    \/ AsyncStart
    \/ \E sink \in SinkKinds : RemoveTest(sink)
    \/ \E sink \in SinkKinds : RemoveUnload(sink)
    \/ \E sink \in SinkKinds : RemoveClear(sink)
    \/ \E sink \in SinkKinds : LoadSink(sink)
    \/ \E sink \in SinkKinds : StoreHandle(sink)
    \/ \E opcode \in OtherOpcodes : ReadOther(opcode)
    \/ \E r \in Reports : ReadChatmix(r[1], r[2])
    \/ SetGameVolume
    \/ SetChatVolume
    \/ ReadTimeout
    \/ AsyncReadError
    \/ AsyncExit

NextAsync ==
    \/ MainStep
    \/ AsyncClose

\* __main__ from the call of chatmix(), with the signal handler run at any
\* point; the audio server and the device's writes do not fail.
SpecAsync == InitAsync /\ [][NextAsync]_vars

\* The same, the main thread always taking its next statement: every call
\* returns, dev.read within its timeout.
SpecAsyncLive == SpecAsync /\ WF_vars(MainStep)

(* ------------------------------------------------------------------ *)
(* Reading `ops`                                                      *)
(* ------------------------------------------------------------------ *)
\* The places in a step's calls of the calls named name
Calls(seq, name) == { i \in 1..Len(seq) : seq[i].op = name }

\* The ids those calls were made with
Ids(seq, name) == { seq[i].id : i \in Calls(seq, name) }

\* The writes of a message with the given opcode byte
WritesOf(seq, opcode) == { i \in Calls(seq, "write") : seq[i].arg[2] = opcode }

NoSinkRemoved(seq) ==
    /\ Calls(seq, "_remove_sink") = {}
    /\ Calls(seq, "module_unload") = {}

ReadSteps == {"read_other", "read_chatmix", "read_timeout", "read_error"}

(* ------------------------------------------------------------------ *)
(* Claims                                                             *)
(* ------------------------------------------------------------------ *)

\* C1: a non-timeout USBError of the read in the running loop leaves CLOSE
\* set, the loop at its exit (no further read, chatmix() returns next), both
\* handles None and no module of this program loaded, whether two sinks or
\* one existed when the error came; chatmix() then returns in that state.
C1_FatalErrorTeardown ==
    /\ act = "read_error" =>
         /\ pc = "loop" /\ CLOSE
         /\ ~ENABLED Reading
         /\ ENABLED ChatmixExit
         /\ PW_LOOPBACK_GAME_MODULE_ID = None
         /\ PW_LOOPBACK_CHAT_MODULE_ID = None
         /\ modules = {}
    /\ (act = "chatmix_exit" /\ prevAct = "read_error") =>
         /\ pc = "returned" /\ CLOSE
         /\ PW_LOOPBACK_GAME_MODULE_ID = None
         /\ PW_LOOPBACK_CHAT_MODULE_ID = None
         /\ modules = {}

\* The error came when one of the two sinks had been unloaded by someone
\* else: one module_unload, two _remove_sink calls.
C1_Witness ==
    /\ act = "read_error"
    /\ Cardinality(Calls(ops, "_remove_sink")) = 2
    /\ Cardinality(Calls(ops, "module_unload")) = 1
    /\ modules = {}

\* C2: a timeout of the read changes neither feature flag, nor CLOSE, nor a
\* handle, nor the loaded modules, makes no call but the read itself (no sink
\* removal, no volume set), leaves chatmix() in its loop (nothing is raised),
\* and the next step of the loop, no close() having come, is another read.
C2_TimeoutTransparency ==
    [][ /\ act' = "read_timeout" =>
             /\ UNCHANGED << flags, CLOSE, handles, modules >>
             /\ ops' = << ReadCall >>
             /\ pc' = "loop"
        /\ (act = "read_timeout" /\ ~CLOSE /\ act' # "close") =>
             /\ act' \in ReadSteps
             /\ ops'[1] = ReadCall
      ]_vars

\* A read that followed a timeout, features enabled and both sinks alive.
C2_Witness ==
    /\ prevAct = "read_timeout"
    /\ act = "read_timeout"
    /\ CHATMIX_CONTROLS_ENABLED /\ SONAR_ICON_ENABLED
    /\ ~CLOSE
    /\ Cardinality(modules) = 2

\* C3 (as claimed): whenever the controller is not in the middle of creating
\* the two sinks, zero or two of its virtual sinks are loaded, never one.
C3_ZeroOrTwoSinks ==
    pc \notin {"create_game", "create_chat"} => Cardinality(modules) \in {0, 2}

\* C4: close() writes the disable message of a feature exactly when that
\* feature's flag was set, and for every combination of the flags sets CLOSE
\* and unloads every sink a handle names.
C4_SymmetricShutdown ==
    [][ act' = "close" =>
          LET present == Indexes(modules) \cap
                           {PW_LOOPBACK_GAME_MODULE_ID, PW_LOOPBACK_CHAT_MODULE_ID}
          IN  /\ Cardinality(WritesOf(ops', OPT_CHATMIX_ENABLE))
                    = BoolInt(CHATMIX_CONTROLS_ENABLED)
              /\ Cardinality(WritesOf(ops', OPT_SONAR_ICON))
                    = BoolInt(SONAR_ICON_ENABLED)
              /\ Cardinality(Calls(ops', "write"))
                    = BoolInt(CHATMIX_CONTROLS_ENABLED) + BoolInt(SONAR_ICON_ENABLED)
              /\ \A i \in Calls(ops', "write") :
                    ops'[i].id = ENDPOINT_TX /\ ops'[i].arg[1] = TX /\ ops'[i].arg[3] = 0
              /\ CLOSE'
              /\ Ids(ops', "module_unload") = present
              /\ modules' = { m \in modules : m.index \notin present }
              /\ PW_LOOPBACK_GAME_MODULE_ID' = None
              /\ PW_LOOPBACK_CHAT_MODULE_ID' = None
      ]_vars

\* close() with only the status icon enabled and both sinks alive: one write,
\* of the status-icon opcode, and two unloads.
C4_Witness ==
    /\ act = "close"
    /\ Cardinality(Calls(ops, "write")) = 1
    /\ Cardinality(WritesOf(ops, OPT_SONAR_ICON)) = 1
    /\ Cardinality(Calls(ops, "module_unload")) = 2
    /\ CLOSE /\ modules = {}

\* C5: a close() right after a close() writes nothing, removes no sink, and
\* leaves every field as the first left it: CLOSE set, both flags cleared,
\* both handles None.
C5_CloseIdempotent ==
    [][ (act = "close" /\ act' = "close") =>
          /\ ops' = <<>>
          /\ UNCHANGED << pc, CLOSE, flags, handles, modules, PW_ORIGINAL_SINK,
                          nextIndex, msg >>
          /\ CLOSE'
          /\ ~CHATMIX_CONTROLS_ENABLED' /\ ~SONAR_ICON_ENABLED'
          /\ PW_LOOPBACK_GAME_MODULE_ID' = None
          /\ PW_LOOPBACK_CHAT_MODULE_ID' = None
      ]_vars

\* The second of two close() calls in a row has run.
C5_Witness ==
    /\ act = "close"
    /\ prevAct = "close"
    /\ pc = "loop"

\* C6: a _remove_virtual_sinks that follows a _remove_virtual_sinks (the
\* error handler's, then the one at the loop's exit; close()'s, then the
\* exit's; the exit's, then close()'s or the next start's) calls _remove_sink
\* for no handle, unloads nothing and changes neither the handles nor the
\* modules: with no sinks it is a no-op.
C6_IdempotentTeardown ==
    [][ ( /\ act \in {"read_error", "close", "chatmix_exit"}
          /\ act' \in {"chatmix_exit", "close", "chatmix_start"} ) =>
          /\ NoSinkRemoved(ops')
          /\ UNCHANGED << handles, modules >>
          /\ PW_LOOPBACK_GAME_MODULE_ID' = None
          /\ PW_LOOPBACK_CHAT_MODULE_ID' = None
      ]_vars

\* chatmix() has returned after an error: the handler's teardown unloaded the
\* sinks and the teardown at the exit came right after it.
C6_Witness ==
    /\ act = "chatmix_exit"
    /\ prevAct = "read_error"
    /\ pc = "returned"
    /\ ops = <<>>

\* C7: a ChatMix report (g, c) is followed by exactly two _set_sink_volume
\* calls and nothing else: first g/100 with the handle of the NovaGame sink,
\* then c/100 with the handle of the NovaChat sink; this holds of every
\* report, whatever the reports before it.
C7_VolumeMapping ==
    /\ act = "read_chatmix" => pc = "vol_game" /\ msg[2] = OPT_CHATMIX
    /\ pc = "vol_game" => act = "read_chatmix"
    /\ pc = "vol_chat" => act = "set_game_volume"
    /\ act = "set_game_volume" =>
         /\ prevAct = "read_chatmix"
         /\ pc = "vol_chat"
         /\ Calls(ops, "_set_sink_volume") = {1}
         /\ ops[1].id = PW_LOOPBACK_GAME_MODULE_ID
         /\ \E m \in modules : m.index = ops[1].id /\ m.sink_name = PW_GAME_SINK
         /\ ops[1].arg = [num |-> msg[3], den |-> 100]
    /\ act = "set_chat_volume" =>
         /\ prevAct = "set_game_volume"
         /\ pc = "loop"
         /\ Calls(ops, "_set_sink_volume") = {1}
         /\ ops[1].id = PW_LOOPBACK_CHAT_MODULE_ID
         /\ \E m \in modules : m.index = ops[1].id /\ m.sink_name = PW_CHAT_SINK
         /\ ops[1].arg = [num |-> msg[4], den |-> 100]

\* The report (80, 30), as the second message of the run, has been applied:
\* 30/100 went to the chat sink.
C7_Witness ==
    /\ act = "set_chat_volume"
    /\ reads = 2
    /\ msg[3] = 80 /\ msg[4] = 30
    /\ Calls(ops, "volume_set_all_chans") = {2}
    /\ ops[2].arg = [num |-> 30, den |-> 100]

\* C8 (as claimed): for a tuple of bytes with direction, opcode and a payload
\* of at most 62 bytes _create_msgdata returns exactly 64 bytes, and for a
\* longer payload it returns no message.
C8_FixedLength ==
    (msgdata # NotCalled /\ IsBytes(data) /\ Len(data) >= 2) =>
        IF Len(data) - 2 <= 62
        THEN msgdata.raised = "no" /\ Len(msgdata.bytes) = 64
        ELSE msgdata.raised # "no"

\* C9 (as claimed): every message written by set_chatmix_controls,
\* set_sonar_icon, set_volume and set_eq_preset is 64 bytes: TX, the opcode of
\* the operation, the payload byte, and 0x00 in every byte after it.
C9_MessageLayout ==
    \A i \in Calls(ops, "write") :
        LET m == ops[i].arg
        IN  /\ Len(m) = 64
            /\ m[1] = 6
            /\ act = "set_chatmix_controls" =>
                   m[2] = 73 /\ m[3] = BoolInt(CHATMIX_CONTROLS_ENABLED)
            /\ act = "set_sonar_icon" =>
                   m[2] = 141 /\ m[3] = BoolInt(SONAR_ICON_ENABLED)
            /\ act = "set_volume" => m[2] = 37 /\ m[3] \in Attenuations
            /\ act = "set_eq_preset" => m[2] = 46 /\ m[3] \in Presets
            /\ act = "close" => m[2] \in {73, 141} /\ m[3] = 0
            /\ \A j \in 4..64 : m[j] = 0

\* C10 (as claimed): the teardown after a non-timeout USBError ends as
\* close() ends: CLOSE set, both features disabled with their flags cleared,
\* both handles None.
C10_SameShutdownPath ==
    act = "read_error" =>
        /\ CLOSE
        /\ ~CHATMIX_CONTROLS_ENABLED /\ ~SONAR_ICON_ENABLED
        /\ PW_LOOPBACK_GAME_MODULE_ID = None
        /\ PW_LOOPBACK_CHAT_MODULE_ID = None

\* C10 (amended): from the running loop with both sinks alive, the USBError
\* handler and close() both set CLOSE, unload both sinks and reset both
\* handles, and leave the loop at its exit; only close() writes the disable
\* message of each enabled feature and clears its flag, while the error path
\* writes nothing and leaves the flags as they were.
C10_ErrorAndStopTeardown ==
    [][ ( /\ pc = "loop" /\ ~CLOSE
          /\ Indexes(modules) =
               {PW_LOOPBACK_GAME_MODULE_ID, PW_LOOPBACK_CHAT_MODULE_ID}
          /\ act' \in {"read_error", "close"} ) =>
          /\ CLOSE'
          /\ pc' = "loop"
          /\ Ids(ops', "module_unload") = Indexes(modules)
          /\ modules' = {}
          /\ PW_LOOPBACK_GAME_MODULE_ID' = None
          /\ PW_LOOPBACK_CHAT_MODULE_ID' = None
          /\ act' = "read_error" =>
               /\ Calls(ops', "write") = {}
               /\ UNCHANGED flags
          /\ act' = "close" =>
               /\ Cardinality(Calls(ops', "write"))
                    = BoolInt(CHATMIX_CONTROLS_ENABLED) + BoolInt(SONAR_ICON_ENABLED)
               /\ ~CHATMIX_CONTROLS_ENABLED' /\ ~SONAR_ICON_ENABLED'
      ]_vars

\* The error path has torn the sinks down with both features still enabled.
C10_Witness ==
    /\ act = "read_error"
    /\ CLOSE
    /\ CHATMIX_CONTROLS_ENABLED /\ SONAR_ICON_ENABLED
    /\ Cardinality(Calls(ops, "module_unload")) = 2
    /\ modules = {}

\* C11 (as claimed): when no sink's name holds the headset name and no target
\* was set by hand, chatmix() fails before it creates anything: no module is
\* loaded or asked for, and the read loop is not entered.
C11_NoHeadsetSinkFails ==
    (runs > 0 /\ PW_ORIGINAL_SINK = Unset) =>
        /\ Calls(ops, "module_load") = {}
        /\ modules = {}
        /\ pc \notin {"loop", "vol_game", "vol_chat", "returned"}

\* C12 (as claimed): when the creation of either sink has failed, chatmix()
\* has ended without entering the loop, none of its sinks is loaded and both
\* handles are None.
C12_CreationFailureCleansUp ==
    act \in {"create_game_sink_raised", "create_chat_sink_raised"} =>
        /\ pc = "raised"
        /\ reads = 0
        /\ modules = {}
        /\ PW_LOOPBACK_GAME_MODULE_ID = None
        /\ PW_LOOPBACK_CHAT_MODULE_ID = None

\* C14: a message whose opcode is not OPT_CHATMIX (volume, equalizer, preset,
\* unknown) changes no flag, not CLOSE, no handle and no module, makes no call
\* but the read that returned it, raises nothing, and the loop's next step, no
\* close() having come, is another read.
C14_OtherMessagesIgnored ==
    [][ /\ act' = "read_other" =>
             /\ msg'[2] # OPT_CHATMIX
             /\ ops' = << ReadCall >>
             /\ UNCHANGED << flags, CLOSE, handles, modules, nextIndex >>
             /\ pc' = "loop"
        /\ (act = "read_other" /\ ~CLOSE /\ act' # "close") =>
             /\ act' \in ReadSteps
             /\ ops'[1] = ReadCall
      ]_vars

\* A message with an unknown opcode was read after another ignored message,
\* both sinks alive.
C14_Witness ==
    /\ prevAct = "read_other"
    /\ act = "read_other"
    /\ msg[2] = 0
    /\ ~CLOSE
    /\ Cardinality(modules) = 2

\* C17: the USBError handler sets CLOSE, and from then on CLOSE stays set and
\* no step is a read or a volume-set call: the failed read is the last call
\* to the device of the run.
C17_ErrorIsLastTransportCall ==
    [][ /\ act' = "read_error" => (CLOSE' /\ pc' = "loop")
        /\ CLOSE =>
             /\ CLOSE'
             /\ act' \notin ReadSteps \cup {"set_game_volume", "set_chat_volume"}
      ]_vars

\* chatmix() has returned after an error at its first read, with reads to
\* spare in the model's bound.
C17_Witness ==
    /\ act = "chatmix_exit"
    /\ prevAct = "read_error"
    /\ reads = 1
    /\ reads < MaxReads
    /\ CLOSE

\* The places in the sink list of the sinks whose name holds HEADSET_NAME
MatchPlaces(sinks) == { i \in 1..Len(sinks) : HeadsetNameIn(sinks[i]) }

FirstMatch(sinks) ==
    sinks[CHOOSE i \in MatchPlaces(sinks) : \A j \in MatchPlaces(sinks) : i <= j]

LastMatch(sinks) ==
    sinks[CHOOSE i \in MatchPlaces(sinks) : \A j \in MatchPlaces(sinks) : i >= j]

\* C18 (as claimed): with a target not set by hand and sinks that match, the
\* target is the first matching sink of the list, and every virtual sink is
\* bound to it.
C18_FirstMatchTarget ==
    (runs > 0 /\ PW_ORIGINAL_SINK # "manual" /\ MatchPlaces(sinkList) # {}) =>
        /\ PW_ORIGINAL_SINK = FirstMatch(sinkList)
        /\ \A m \in modules : m.slaves = PW_ORIGINAL_SINK

\* C18 (amended): the target is the last matching sink of the list, and every
\* virtual sink is bound to it.
C18_LastMatchTarget ==
    (runs > 0 /\ PW_ORIGINAL_SINK # "manual" /\ MatchPlaces(sinkList) # {}) =>
        /\ PW_ORIGINAL_SINK = LastMatch(sinkList)
        /\ \A m \in modules : m.slaves = PW_ORIGINAL_SINK

\* Two sinks match, and both virtual sinks are bound to the second.
C18_Witness ==
    /\ Cardinality(MatchPlaces(sinkList)) = 2
    /\ FirstMatch(sinkList) # LastMatch(sinkList)
    /\ Cardinality(modules) = 2
    /\ \A m \in modules : m.slaves = LastMatch(sinkList)

FailedTeardownSteps ==
    {"chatmix_start_remove_failed", "read_error_remove_failed",
     "chatmix_exit_remove_failed", "close_remove_failed"}

\* C13 (as claimed): a close() in which the write disabling a feature failed
\* still ends with CLOSE set, both handles None and none of the sinks loaded.
C13_CloseSurvivesWriteFailure ==
    act = "close_write_failed" =>
        /\ CLOSE
        /\ PW_LOOPBACK_GAME_MODULE_ID = None
        /\ PW_LOOPBACK_CHAT_MODULE_ID = None
        /\ modules = {}

\* C15 (as claimed): after a teardown of two sinks in which the destruction
\* of one failed, the unload of the other was attempted in that teardown too,
\* and a teardown made by chatmix() leaves it stopped, not by an exception.
C15_BestEffortTeardown ==
    ( /\ act \in FailedTeardownSteps
      /\ Cardinality(Indexes(modules) \cup Ids(ops, "module_unload")) = 2 ) =>
        /\ Cardinality(Ids(ops, "module_unload")) = 2
        /\ act \in {"read_error_remove_failed", "chatmix_exit_remove_failed"}
             => pc \in {"loop", "returned"}

\* C19 (as claimed): whenever close() runs, no _set_sink_volume call is made
\* with a handle that is None or that names a module no longer loaded.
C19_VolumeOnLiveSinkOnly ==
    \A i \in Calls(ops, "_set_sink_volume") :
        /\ ops[i].id # None
        /\ ops[i].id \in Indexes(modules)

DestroyedTwice ==
    \E i, j \in 1..Len(unloads) : i < j /\ unloads[i] = unloads[j]

\* C20 (as claimed): whenever close() runs, once chatmix() has ended none of
\* the sinks is loaded and no module's unload has been asked for twice.
C20_CleanEndUnderInterleaving ==
    pc \in {"returned", "raised"} =>
        /\ modules = {}
        /\ ~DestroyedTwice

LoopStates == {"loop", "vol_game", "vol_chat"}

\* C16: once the loop stands at its test with CLOSE set it makes no read but
\* leaves; and after a close() that came while the loop was running, the main
\* thread taking its steps, chatmix() returns with both handles None and none
\* of the sinks loaded.
C16_StopLiveness ==
    /\ [][ (pc = "loop" /\ CLOSE) =>
             (act' \notin ReadSteps /\ pc' \notin {"vol_game", "vol_chat"}) ]_vars
    /\ (act = "close" /\ pc \in LoopStates)
           ~> ( /\ pc = "returned"
                /\ modules = {}
                /\ PW_LOOPBACK_GAME_MODULE_ID = None
                /\ PW_LOOPBACK_CHAT_MODULE_ID = None )

\* chatmix() has returned with nothing loaded after a close() (the features
\* are disabled) that came once the running loop had read one report, its
\* only read, with reads to spare: each sink was unloaded once.
C16_Witness ==
    /\ pc = "returned"
    /\ CLOSE
    /\ ~CHATMIX_CONTROLS_ENABLED
    /\ local.site = "exit"
    /\ Len(unloads) = 2
    /\ ~DestroyedTwice
    /\ modules = {}
    /\ PW_LOOPBACK_GAME_MODULE_ID = None
    /\ PW_LOOPBACK_CHAT_MODULE_ID = None
    /\ reads = 1
    /\ reads < MaxReads
    /\ msg # <<>> /\ msg[2] = OPT_CHATMIX

====
